---- MODULE Spec2Model ----
(***************************************************************************)
(* Model of the NetSecMonitor anomaly-detection engine                     *)
(* (src/anomaly_detector.py): the AnomalyDetector object over the three    *)
(* SQLite tables traffic_events, baseline_profiles and security_alerts,    *)
(* and of the NetworkMonitor process (src/monitor.py) that writes to the   *)
(* same store.                                                             *)
(*                                                                         *)
(* Time is counted in seconds.  A timestamp is modelled as its number of   *)
(* seconds; a traffic event also records the form of its timestamp text:   *)
(* 'YYYY-MM-DD HH:MM:SS', which SQLite's datetime() produces and which     *)
(* compares as the instant it denotes, or the isoformat text of the        *)
(* monitor (field iso), which compares with datetime() texts by its date.  *)
(* An IP address is the tuple of its four octets, NULL is the empty tuple. *)
(* Real numbers (mean, standard deviation, thresholds) are fixed-point     *)
(* integers with Scale units per 1.                                        *)
(***************************************************************************)
EXTENDS Integers, Sequences, FiniteSets, Bags, TLC

VARIABLES
    now,                \* the wall clock read by datetime('now')
    traffic_events,     \* table traffic_events: a bag of rows
    baseline_profiles,  \* table baseline_profiles: a set of rows
    security_alerts,    \* table security_alerts: rows in id order
    baselines,          \* AnomalyDetector.baselines, the in-memory cache
    pc,                 \* per connection: position inside create_alert
    pending,            \* per connection: the candidate create_alert holds
    uncommitted,        \* the detector's connection: rows inserted, not yet committed
    monitor,            \* the NetworkMonitor process of src/monitor.py
    last                \* record of the operation that ran last

vars == <<now, traffic_events, baseline_profiles, security_alerts,
          baselines, pc, pending, uncommitted, monitor, last>>

----------------------------------------------------------------------------
(* Bounds of the model *)

MaxAlerts == 3
Scale == 100
MaxFaults == 1
MaxPackets == 10        \* packets the monitor logs

(* Units of time *)

SecondsPerMinute == 60
SecondsPerHour == 60 * SecondsPerMinute
StartTime == 48 * SecondsPerHour

----------------------------------------------------------------------------
(* Values *)

Null == <<>>

IpInternalA == <<192, 168, 1, 100>>
IpInternalB == <<192, 168, 1, 7>>
IpTenNet == <<10, 0, 0, 5>>
IpTenNetB == <<10, 0, 0, 9>>
IpExternal == <<8, 8, 8, 8>>

\* SQL comparison "a = b" of two addresses: NULL on either side is never true
SqlEq(a, b) == a # Null /\ b # Null /\ a = b

\* timestamp > datetime('now', '-N seconds')
After(ts, seconds) == ts > now - seconds

RECURSIVE SumOver(_, _)
SumOver(f, S) ==
    IF S = {} THEN 0
    ELSE LET x == CHOOSE y \in S : TRUE
         IN  f[x] + SumOver(f, S \ {x})

RECURSIVE SeqSum(_)
SeqSum(s) == IF s = <<>> THEN 0 ELSE Head(s) + SeqSum(Tail(s))

Max(a, b) == IF a >= b THEN a ELSE b

\* every ordering of a finite set as a sequence
Orderings(S) ==
    {s \in [1..Cardinality(S) -> S] : \A i, j \in 1..Cardinality(S) : i # j => s[i] # s[j]}

----------------------------------------------------------------------------
(* create_alert *)

DedupWindow == 10 * SecondsPerMinute

Candidate(type, sev, ip, desc, det) ==
    [alert_type |-> type, severity |-> sev, source_ip |-> ip,
     description |-> desc, details |-> det]

\* as SimilarAlert, with '-10 seconds' for '-10 minutes'
SimilarAlert_TenSeconds(row, c) ==
    /\ row.alert_type = c.alert_type
    /\ SqlEq(row.source_ip, c.source_ip)
    /\ After(row.timestamp, 10)
    /\ row.status = "open"

\* the row of the SELECT at create_alert: same key, recent, open
SimilarAlert(row, c) ==
    /\ row.alert_type = c.alert_type
    /\ SqlEq(row.source_ip, c.source_ip)
    /\ After(row.timestamp, DedupWindow)
    /\ row.status = "open"

\* as AlertExists, with status = 'resolved' for status = 'open'
AlertExists_Resolved(alerts, c) ==
    \E i \in 1..Len(alerts) :
        /\ alerts[i].alert_type = c.alert_type
        /\ SqlEq(alerts[i].source_ip, c.source_ip)
        /\ After(alerts[i].timestamp, DedupWindow)
        /\ alerts[i].status = "resolved"

AlertExists(alerts, c) ==
    \E i \in 1..Len(alerts) : SimilarAlert(alerts[i], c)

AlertRow(c) ==
    [timestamp |-> now, alert_type |-> c.alert_type, severity |-> c.severity,
     source_ip |-> c.source_ip, description |-> c.description,
     details |-> c.details, status |-> "open"]

\* the alerts table after create_alert(c)
create_alert(alerts, c) ==
    IF AlertExists(alerts, c) THEN alerts ELSE Append(alerts, AlertRow(c))

\* the alerts table after create_alert was called for each candidate in turn
RECURSIVE create_alerts(_, _)
create_alerts(alerts, cs) ==
    IF cs = <<>> THEN alerts
    ELSE create_alerts(create_alert(alerts, Head(cs)), Tail(cs))

----------------------------------------------------------------------------
(* The record of the last operation: its name, argument, return value, the
   candidates it handed to create_alert, and the tables as it found them *)

Ran(op, arg, ret, cands) ==
    [op |-> op, arg |-> arg, ret |-> ret, cands |-> cands,
     pre_alerts |-> security_alerts, pre_profiles |-> baseline_profiles,
     pre_events |-> traffic_events, pre_uncommitted |-> uncommitted]

Conns == {1, 2}

\* NetworkMonitor after __init__ (src/monitor.py:25-30) and the first lines of run
MonitorStarted ==
    [pc |-> "loop", running |-> TRUE, connected |-> TRUE, signalled |-> FALSE,
     packet_count |-> 0, event |-> Null]

TypeOK ==
    /\ now \in Nat
    /\ IsABag(traffic_events)
    /\ IsFiniteSet(baseline_profiles)
    /\ security_alerts \in Seq([timestamp : Nat, alert_type : STRING, severity : STRING,
                                source_ip : Seq(Nat), description : [text : STRING, ip : Seq(Nat), protocol : STRING],
                                details : Seq(Int), status : {"open", "resolved"}])
    /\ pc \in [Conns -> {"idle", "insert"}]
    /\ monitor.pc \in {"loop", "check", "exited"}
    /\ monitor.running \in BOOLEAN
    /\ monitor.connected \in BOOLEAN
    /\ monitor.signalled \in BOOLEAN
    /\ monitor.packet_count \in Nat

InitCommon ==
    /\ now = StartTime
    /\ baseline_profiles = {}
    /\ security_alerts = <<>>
    /\ baselines = <<>>
    /\ pc = [c \in Conns |-> "idle"]
    /\ pending = [c \in Conns |-> Null]
    /\ uncommitted = <<>>
    /\ monitor = MonitorStarted
    /\ last = [op |-> "init", arg |-> Null, ret |-> Null, cands |-> <<>>,
               pre_alerts |-> <<>>, pre_profiles |-> {}, pre_events |-> EmptyBag,
               pre_uncommitted |-> <<>>]

----------------------------------------------------------------------------
(* The environment: the clock, and the dashboard user who resolves alerts *)

\* the clock moves on to the instant t
Tick(t) ==
    /\ t > now
    /\ now' = t
    /\ last' = Ran("tick", Null, Null, <<>>)
    /\ UNCHANGED <<traffic_events, baseline_profiles, security_alerts, baselines, pc, pending, uncommitted, monitor>>

\* alert i goes from open to resolved
Resolve(i) ==
    /\ i \in 1..Len(security_alerts)
    /\ security_alerts[i].status = "open"
    /\ security_alerts' = [security_alerts EXCEPT ![i].status = "resolved"]
    /\ last' = Ran("resolve", i, Null, <<>>)
    /\ UNCHANGED <<now, traffic_events, baseline_profiles, baselines, pc, pending, uncommitted, monitor>>

----------------------------------------------------------------------------
(* AnomalyDetector.create_alert called on its own *)

PortScanText == "Potential port scan detected from"
SpikeText == "Unusual traffic volume spike detected"
ProtocolText == "Unusual protocol usage:"
FloodText == "High connection attempt rate from"
ExfilText == "Large data transfer detected"

Description(text, ip, protocol) == [text |-> text, ip |-> ip, protocol |-> protocol]

AdmitCandidates ==
    { Candidate("port_scan", "medium", IpTenNet, Description(PortScanText, IpTenNet, ""), <<21, 21, 5>>),
      Candidate("port_scan", "high", IpTenNet, Description(PortScanText, IpTenNet, ""), <<51, 60, 5>>),
      Candidate("connection_flood", "high", IpTenNet, Description(FloodText, IpTenNet, ""), <<51, 8, 8, 8, 8, 22>>),
      Candidate("traffic_spike", "high", Null, Description(SpikeText, Null, ""), <<9, 2>>) }

CreateAlert(c) ==
    /\ Len(security_alerts) < MaxAlerts
    /\ security_alerts' = create_alert(security_alerts, c)
    /\ last' = Ran("create_alert", c, Null, <<c>>)
    /\ UNCHANGED <<now, traffic_events, baseline_profiles, baselines, pc, pending, uncommitted, monitor>>

AdmitClock == {StartTime + o : o \in {60, DedupWindow - 1, DedupWindow, DedupWindow + 1, 2 * DedupWindow + 1}}

InitAdmit ==
    /\ InitCommon
    /\ traffic_events = EmptyBag

NextAdmit ==
    \/ \E t \in AdmitClock : Tick(t)
    \/ \E i \in 1..MaxAlerts : Resolve(i)
    \/ \E c \in AdmitCandidates : CreateAlert(c)

SpecAdmit == InitAdmit /\ [][NextAdmit]_vars

----------------------------------------------------------------------------
(* Two connections, each running create_alert: the SELECT is one step and
   the INSERT with its commit is the next *)

InFlight == Cardinality({k \in Conns : pc[k] = "insert"})

\* lines 285-297: the existence check, and the return when a row is found
ConnSelect(k, c) ==
    /\ pc[k] = "idle"
    /\ Len(security_alerts) + InFlight < MaxAlerts
    /\ IF AlertExists(security_alerts, c)
       THEN UNCHANGED <<pc, pending>>
       ELSE /\ pc' = [pc EXCEPT ![k] = "insert"]
            /\ pending' = [pending EXCEPT ![k] = c]
    /\ last' = Ran("select", c, k, <<c>>)
    /\ UNCHANGED <<now, traffic_events, baseline_profiles, security_alerts, baselines, uncommitted, monitor>>

\* lines 299-306: the insert and the commit
ConnInsert(k) ==
    /\ pc[k] = "insert"
    /\ security_alerts' = Append(security_alerts, AlertRow(pending[k]))
    /\ pc' = [pc EXCEPT ![k] = "idle"]
    /\ pending' = [pending EXCEPT ![k] = Null]
    /\ last' = Ran("insert", pending[k], k, <<>>)
    /\ UNCHANGED <<now, traffic_events, baseline_profiles, baselines, uncommitted, monitor>>

ConcClock == {StartTime + o : o \in {60, DedupWindow}}

NextConc ==
    \/ \E t \in ConcClock : Tick(t)
    \/ \E k \in Conns, c \in AdmitCandidates : ConnSelect(k, c)
    \/ \E k \in Conns : ConnInsert(k)

SpecConc == InitAdmit /\ [][NextConc]_vars

----------------------------------------------------------------------------
(* Table traffic_events.  The columns source_port and payload_preview are
   never read by the detector and are left out. *)

Event(ts, src, dst, port, proto, size, flags) ==
    [timestamp |-> ts, source_ip |-> src, destination_ip |-> dst,
     destination_port |-> port, protocol |-> proto, packet_size |-> size,
     flags |-> flags, iso |-> FALSE]

\* a row whose timestamp text is datetime.now().isoformat(),
\* 'YYYY-MM-DDTHH:MM:SS.ffffff', as src/monitor.py writes it; the local
\* time zone is taken to be UTC
IsoEvent(ts, src, dst, port, proto, size, flags) ==
    [timestamp |-> ts, source_ip |-> src, destination_ip |-> dst,
     destination_port |-> port, protocol |-> proto, packet_size |-> size,
     flags |-> flags, iso |-> TRUE]

\* the 'YYYY-MM-DD' a timestamp text starts with
DateOf(ts) == ts \div (24 * SecondsPerHour)

\* timestamp > datetime('now', '-seconds') as SQLite compares the two texts.
\* The right-hand side is 'YYYY-MM-DD HH:MM:SS'.  A text of the same form
\* compares as the instant it denotes; a text with 'T' after the date is
\* greater than every text of the same date with ' ' there, and otherwise
\* compares by its date.
TimestampAfter(r, seconds) ==
    IF r.iso THEN DateOf(r.timestamp) >= DateOf(now - seconds)
    ELSE After(r.timestamp, seconds)

\* n rows equal to e
Copies(e, n) == [r \in {e} |-> n]

\* the distinct rows of a table with timestamp > datetime('now', '-seconds')
RecentIn(events, seconds) == {r \in BagToSet(events) : TimestampAfter(r, seconds)}

Recent(seconds) == RecentIn(traffic_events, seconds)

\* COUNT( * ) over the rows of a set of distinct rows
CountRowsIn(events, S) == SumOver([r \in S |-> CopiesIn(r, events)], S)

CountRows(S) == CountRowsIn(traffic_events, S)

----------------------------------------------------------------------------
(* establish_baseline *)

PacketsPerMinute == <<"packets", "per", "minute">>
BytesPerMinute == <<"bytes", "per", "minute">>
NormalTraffic == <<"normal", "traffic">>
OtherProfile == <<"night">>

MinBuckets == 10
Sigmas == 3

\* strftime('%Y-%m-%d %H:%M', timestamp)
MinuteOf(ts) == ts \div SecondsPerMinute

RECURSIVE CountsOf(_, _, _)
CountsOf(events, rows, minutes) ==
    IF minutes = {} THEN <<>>
    ELSE LET first == CHOOSE x \in minutes : \A y \in minutes : x <= y
         IN  <<CountRowsIn(events, {r \in rows : MinuteOf(r.timestamp) = first})>>
             \o CountsOf(events, rows, minutes \ {first})

\* values = [row[0] for row in cursor.fetchall()]: COUNT( * ) of each minute
BucketCountsIn(events, lookback_hours) ==
    LET rows == RecentIn(events, lookback_hours * SecondsPerHour)
    IN  CountsOf(events, rows, {MinuteOf(r.timestamp) : r \in rows})

BucketCounts(lookback_hours) == BucketCountsIn(traffic_events, lookback_hours)

RECURSIVE SqrtBetween(_, _, _)
SqrtBetween(n, lo, hi) ==
    IF lo >= hi THEN lo
    ELSE LET mid == (lo + hi + 1) \div 2
         IN  IF mid * mid <= n THEN SqrtBetween(n, mid, hi)
             ELSE SqrtBetween(n, lo, mid - 1)

\* math.sqrt on whole numbers, rounded down
ISqrt(n) == SqrtBetween(n, 0, IF n < 46340 THEN n ELSE 46340)

\* statistics.mean, in units of 1/Scale
Mean(values) == (SeqSum(values) * Scale) \div Len(values)

\* sum of the squared deviations from the mean, times Len(values)^2
SquaredDeviations(values) ==
    LET n == Len(values)
        total == SeqSum(values)
    IN  SeqSum([i \in 1..n |-> (n * values[i] - total) * (n * values[i] - total)])

StDevWith(values, divisor) ==
    LET n == Len(values)
        d == n * n * divisor
        ss == SquaredDeviations(values)
    IN  ISqrt(Scale * Scale * (ss \div d) + (Scale * Scale * (ss % d)) \div d)

StDev_Population(values) == StDevWith(values, Len(values))

\* statistics.stdev: the sample standard deviation, in units of 1/Scale
StDev(values) == StDevWith(values, Len(values) - 1)

SufficientData_AtLeast(values) == Len(values) >= MinBuckets

\* if len(values) > 10
SufficientData(values) == Len(values) > MinBuckets

BaselineRow(profile_name, metric_name, values) ==
    LET mean == Mean(values)
        std_dev == StDev(values)
    IN  [profile_name |-> profile_name, metric_name |-> metric_name,
         baseline_value |-> mean, std_deviation |-> std_dev,
         threshold_high |-> mean + Sigmas * std_dev,
         threshold_low |-> Max(0, mean - Sigmas * std_dev)]

\* the unique index of baseline_profiles
UniqueKey(row) == <<row.profile_name, row.metric_name>>

\* as InsertOrReplace, but an existing row only gets the new thresholds
InsertOrReplace_ThresholdsOnly(table, row) ==
    IF \E r \in table : UniqueKey(r) = UniqueKey(row)
    THEN {IF UniqueKey(r) = UniqueKey(row)
          THEN [r EXCEPT !.threshold_high = row.threshold_high, !.threshold_low = row.threshold_low]
          ELSE r : r \in table}
    ELSE table \cup {row}

InsertOrReplace_Ignore(table, row) ==
    IF \E r \in table : UniqueKey(r) = UniqueKey(row) THEN table ELSE table \cup {row}

\* INSERT OR REPLACE INTO baseline_profiles
InsertOrReplace(table, row) ==
    {r \in table : UniqueKey(r) # UniqueKey(row)} \cup {row}

EstablishBaseline(profile_name, metric_name, lookback_hours) ==
    LET values == BucketCounts(lookback_hours)
        written == metric_name = PacketsPerMinute /\ SufficientData(values)
    IN  /\ baseline_profiles' =
              IF written
              THEN InsertOrReplace(baseline_profiles, BaselineRow(profile_name, metric_name, values))
              ELSE baseline_profiles
        \* self.db_conn.commit() ends the connection's open transaction,
        \* whatever statement opened it
        /\ security_alerts' = IF written THEN security_alerts \o uncommitted ELSE security_alerts
        /\ uncommitted' = IF written THEN <<>> ELSE uncommitted
        /\ last' = Ran("establish_baseline", <<profile_name, metric_name, lookback_hours>>, written, <<>>)
        /\ UNCHANGED <<now, traffic_events, baselines, pc, pending, monitor>>

----------------------------------------------------------------------------
(* Traffic recorded before the detector starts: one populated minute every
   five minutes back from the start, the k-th of them holding Shape[k] rows *)

Spacing == 5 * SecondsPerMinute

HistoryEvent(k) ==
    Event(StartTime - k * Spacing - 30, IpInternalA, IpExternal, 443, "HTTPS", 500, <<"ACK">>)

History(n, shape) ==
    [r \in {HistoryEvent(k) : k \in 1..n} |->
        LET k == CHOOSE j \in 1..n : HistoryEvent(j) = r IN shape[k]]

ShapeFlat == [k \in 1..13 |-> 1]
ShapeQuiet == [k \in 1..13 |-> 1 + (k % 3)]
ShapeBusy == [k \in 1..13 |-> 10 + (k % 2) + (k \div 12) * 4]

Shapes == {ShapeFlat, ShapeQuiet, ShapeBusy}

Histories == {History(n, shape) : n \in {10, 11, 13}, shape \in Shapes}

BaselineClock == {StartTime + Spacing, StartTime + 30 * SecondsPerMinute}

InitBaseline ==
    /\ InitCommon
    /\ traffic_events \in Histories

NextBaseline ==
    \/ \E t \in BaselineClock : Tick(t)
    \/ \E p \in {NormalTraffic, OtherProfile}, m \in {PacketsPerMinute, BytesPerMinute}, h \in {1, 24} :
          EstablishBaseline(p, m, h)

SpecBaseline == InitBaseline /\ [][NextBaseline]_vars

----------------------------------------------------------------------------
(* __init__ and load_baselines *)

\* key = f"{row[0]}_{row[1]}"
BaselineKey(profile_name, metric_name) == profile_name \o metric_name

CacheEntry(row) ==
    [baseline |-> row.baseline_value, std_dev |-> row.std_deviation,
     threshold_high |-> row.threshold_high, threshold_low |-> row.threshold_low]

\* self.baselines after load_baselines on an empty dictionary
LoadBaselines(table) ==
    [key \in {BaselineKey(r.profile_name, r.metric_name) : r \in table} |->
        CacheEntry(CHOOSE r \in table : BaselineKey(r.profile_name, r.metric_name) = key)]

\* a new AnomalyDetector is constructed on the same database
Construct ==
    /\ baselines' = LoadBaselines(baseline_profiles)
    /\ last' = Ran("__init__", Null, Null, <<>>)
    /\ UNCHANGED <<now, traffic_events, baseline_profiles, security_alerts, pc, pending, uncommitted, monitor>>

----------------------------------------------------------------------------
(* The detectors.  Each hands its candidates to create_alert in the order of
   the rows of its query, an order the query leaves open. *)

\* a detector ran: its candidates went through create_alert one by one
Detected(op, arg, ret, cands) ==
    /\ Len(create_alerts(security_alerts, cands)) <= MaxAlerts
    /\ security_alerts' = create_alerts(security_alerts, cands)
    /\ last' = Ran(op, arg, ret, cands)
    /\ UNCHANGED <<now, traffic_events, baseline_profiles, baselines, pc, pending, uncommitted, monitor>>

(* detect_port_scan *)

PortScanPorts == 20
PortScanHighPorts == 50

ManyPorts_AtLeast(unique_ports) == unique_ports >= PortScanPorts

\* HAVING unique_ports > 20
ManyPorts(unique_ports) == unique_ports > PortScanPorts

\* 'high' if unique_ports > 50 else 'medium'
PortScanSeverity_Critical(unique_ports) ==
    IF unique_ports > PortScanHighPorts THEN "critical" ELSE "medium"

PortScanSeverity(unique_ports) ==
    IF unique_ports > PortScanHighPorts THEN "high" ELSE "medium"

PortScanCandidate(rows, source_ip, lookback_minutes) ==
    LET mine == {r \in rows : r.source_ip = source_ip}
        unique_ports == Cardinality({r.destination_port : r \in mine})
        total_attempts == CountRows(mine)
    IN  Candidate("port_scan", PortScanSeverity(unique_ports), source_ip,
                  Description(PortScanText, source_ip, ""),
                  <<unique_ports, total_attempts, lookback_minutes>>)

\* as PortScanRows, but leaving out the sources that already have an open alert
PortScanRows_Unalerted(lookback_minutes) ==
    LET rows == Recent(lookback_minutes * SecondsPerMinute)
    IN  {PortScanCandidate(rows, ip, lookback_minutes) :
            ip \in {r.source_ip : r \in rows} \
                   {security_alerts[i].source_ip : i \in 1..Len(security_alerts)}}

PortScanRows(lookback_minutes) ==
    LET rows == Recent(lookback_minutes * SecondsPerMinute)
    IN  {PortScanCandidate(rows, ip, lookback_minutes) : ip \in {r.source_ip : r \in rows}}

DetectPortScan(lookback_minutes) ==
    \E cands \in Orderings({c \in PortScanRows(lookback_minutes) : ManyPorts(c.details[1])}) :
        Detected("detect_port_scan", lookback_minutes, Len(cands), cands)

(* detect_traffic_spike *)

AboveThreshold_Mean(current_count, baseline) == current_count * Scale > baseline.baseline

\* current_count > baseline['threshold_high']
AboveThreshold(current_count, baseline) == current_count * Scale > baseline.threshold_high

\* 'critical' if current_count > baseline['threshold_high'] * 2 else 'high'
SpikeSeverity(current_count, baseline) ==
    IF current_count * Scale > baseline.threshold_high * 2 THEN "critical" ELSE "high"

\* f"{x:.0f}"
Rounded(x) == (x + Scale \div 2) \div Scale

\* the candidate detect_traffic_spike hands to create_alert, if any, when
\* self.baselines is cache
TrafficSpikeRowsOf(cache) ==
    LET current_count == CountRows(Recent(SecondsPerMinute))
        baseline_key == BaselineKey(NormalTraffic, PacketsPerMinute)
    IN  IF baseline_key \in DOMAIN cache /\ AboveThreshold(current_count, cache[baseline_key])
        THEN <<Candidate("traffic_spike", SpikeSeverity(current_count, cache[baseline_key]),
                         Null, Description(SpikeText, Null, ""),
                         <<current_count, Rounded(cache[baseline_key].baseline)>>)>>
        ELSE <<>>

TrafficSpikeRows == TrafficSpikeRowsOf(baselines)

DetectTrafficSpike ==
    Detected("detect_traffic_spike", Null, TrafficSpikeRows # <<>>, TrafficSpikeRows)

(* detect_unusual_protocol *)

CommonProtocols == {"TCP", "UDP", "HTTP", "HTTPS"}
ProtocolShare == 30

\* HAVING percentage > 30, percentage = COUNT( * ) * 100.0 / total
LargeShare_AtLeast(count, total) == count * 100 >= ProtocolShare * total

LargeShare(count, total) == count * 100 > ProtocolShare * total

UnusualProtocolRows ==
    LET rows == Recent(SecondsPerHour)
        total == CountRows(rows)
    IN  {Candidate("unusual_protocol", "medium", Null, Description(ProtocolText, Null, proto),
                   LET count == CountRows({r \in rows : r.protocol = proto})
                   IN  <<(count * 2000 + total) \div (2 * total), count>>) :
            proto \in {q \in {r.protocol : r \in rows} :
                          /\ LargeShare(CountRows({r \in rows : r.protocol = q}), total)
                          /\ q \notin CommonProtocols}}

DetectUnusualProtocol ==
    \E cands \in Orderings(UnusualProtocolRows) :
        Detected("detect_unusual_protocol", Null, Len(cands), cands)

(* detect_failed_connections *)

FloodWindow == 5 * SecondsPerMinute
FloodSyns == 50

\* flags LIKE '%SYN%'
CarriesSyn(flags) == \E i \in 1..Len(flags) : flags[i] = "SYN"

ManySyns_AtLeast(syn_count) == syn_count >= FloodSyns

\* HAVING syn_count > 50
ManySyns(syn_count) == syn_count > FloodSyns

FloodRows ==
    LET rows == {r \in Recent(FloodWindow) : CarriesSyn(r.flags)}
        groups == {<<r.source_ip, r.destination_ip, r.destination_port>> : r \in rows}
        syn_count(g) == CountRows({r \in rows : <<r.source_ip, r.destination_ip, r.destination_port>> = g})
    IN  {Candidate("connection_flood", "high", g[1], Description(FloodText, g[1], ""),
                   <<syn_count(g)>> \o g[2] \o <<g[3]>>) :
            g \in {h \in groups : ManySyns(syn_count(h))}}

DetectFailedConnections ==
    \E cands \in Orderings(FloodRows) :
        Detected("detect_failed_connections", Null, Len(cands), cands)

(* detect_data_exfiltration *)

ExfilWindow == 10 * SecondsPerMinute
ExfilBytes == 10485760
MegaByte == 1048576

\* ip LIKE '192.168.%'
Internal(ip) == ip # Null /\ ip[1] = 192 /\ ip[2] = 168

\* HAVING total_bytes > 10485760
LargeTransfer(total_bytes) == total_bytes > ExfilBytes

ExfilRows ==
    LET rows == {r \in Recent(ExfilWindow) : Internal(r.source_ip) /\ ~Internal(r.destination_ip)}
        groups == {<<r.source_ip, r.destination_ip>> : r \in rows}
        mine(g) == {r \in rows : <<r.source_ip, r.destination_ip>> = g}
        total_bytes(g) == SumOver([r \in mine(g) |-> r.packet_size * CopiesIn(r, traffic_events)], mine(g))
    IN  {Candidate("data_exfiltration", "high", g[1], Description(ExfilText, Null, ""),
                   g[1] \o <<(total_bytes(g) * 100 + MegaByte \div 2) \div MegaByte>> \o g[2]
                        \o <<CountRows(mine(g))>>) :
            g \in {h \in groups : LargeTransfer(total_bytes(h))}}

DetectDataExfiltration ==
    \E cands \in Orderings(ExfilRows) :
        Detected("detect_data_exfiltration", Null, Len(cands), cands)

----------------------------------------------------------------------------
(* Traffic of the last minute before the detector starts, on top of the
   recorded history; the baseline may have been established before it came *)

BurstTime == StartTime - 20
EarlierTime == StartTime - 400

Scan(ts, src, ports, copies) ==
    [r \in {Event(ts, src, IpInternalB, p, "TCP", 64, <<"SYN">>) : p \in ports} |-> copies]

Flood(src, port, n, flags) == Copies(Event(BurstTime, src, IpInternalA, port, "TCP", 64, flags), n)

Transfer(src, dst, megabytes, rest) ==
    Copies(Event(BurstTime, src, dst, 443, "HTTPS", MegaByte, <<"ACK">>), megabytes)
    (+) (IF rest > 0 THEN Copies(Event(BurstTime, src, dst, 443, "HTTPS", rest, <<"ACK">>), 1)
         ELSE EmptyBag)

Pings(n) == Copies(Event(BurstTime, IpExternal, IpInternalA, 0, "ICMP", 64, <<>>), n)

Lookups(n) == Copies(Event(BurstTime, IpInternalB, IpExternal, 53, "DNS", 80, <<>>), n)

Bursts ==
    { Scan(BurstTime, IpTenNet, 1..20, 1),
      Scan(BurstTime, IpTenNet, 1..21, 1),
      Scan(BurstTime, IpTenNet, 1..50, 1),
      Scan(BurstTime, IpTenNet, 1..51, 1),
      Scan(BurstTime, IpTenNet, 1..20, 2),
      Scan(BurstTime, IpTenNet, 1..21, 1) (+) Scan(BurstTime, IpExternal, 1..51, 1),
      Scan(BurstTime, IpTenNet, 1..20, 1) (+) Scan(EarlierTime, IpTenNet, 21..25, 1),
      Flood(IpExternal, 22, 50, <<"SYN">>),
      Flood(IpExternal, 22, 51, <<"SYN">>),
      Flood(IpExternal, 22, 50, <<"SYN">>) (+) Flood(IpExternal, 22, 5, <<"ACK">>),
      Flood(IpExternal, 22, 51, <<"SYN", "ACK">>),
      Flood(IpExternal, 22, 51, <<"SYN">>) (+) Flood(IpExternal, 80, 51, <<"SYN">>),
      Transfer(IpInternalA, IpExternal, 9, 0),
      Transfer(IpInternalA, IpExternal, 10, 0),
      Transfer(IpInternalA, IpExternal, 10, 1),
      Transfer(IpInternalA, IpExternal, 11, 0),
      Transfer(IpTenNet, IpExternal, 11, 0),
      Transfer(IpInternalA, IpTenNetB, 11, 0),
      Transfer(IpExternal, IpInternalA, 11, 0),
      Transfer(IpInternalA, IpInternalB, 11, 0),
      Pings(3),
      Pings(5),
      Pings(10),
      Pings(12) (+) Lookups(5),
      Pings(40) (+) Lookups(35) }

DetectClock == {StartTime + 60, StartTime + 290, StartTime + 590, StartTime + SecondsPerHour + 30}

\* the detector is constructed over one of the bursts on top of the history
InitOver(bursts, history) ==
    /\ now = StartTime
    /\ security_alerts = <<>>
    /\ pc = [c \in Conns |-> "idle"]
    /\ pending = [c \in Conns |-> Null]
    /\ uncommitted = <<>>
    /\ monitor = MonitorStarted
    /\ last = [op |-> "init", arg |-> Null, ret |-> Null, cands |-> <<>>,
               pre_alerts |-> <<>>, pre_profiles |-> {}, pre_events |-> EmptyBag,
               pre_uncommitted |-> <<>>]
    /\ \E burst \in bursts, established \in (IF history = EmptyBag THEN {FALSE} ELSE BOOLEAN) :
          /\ traffic_events = history (+) burst
          /\ baseline_profiles =
                IF established
                THEN {BaselineRow(NormalTraffic, PacketsPerMinute, BucketCountsIn(history, 24))}
                ELSE {}
    /\ baselines = LoadBaselines(baseline_profiles)

InitDetect == InitOver(Bursts, History(11, ShapeQuiet))

NextDetect ==
    \/ \E t \in DetectClock : Tick(t)
    \/ EstablishBaseline(NormalTraffic, PacketsPerMinute, 24)
    \/ Construct
    \/ \E lookback_minutes \in {5, 10} : DetectPortScan(lookback_minutes)
    \/ DetectTrafficSpike
    \/ DetectUnusualProtocol
    \/ DetectFailedConnections
    \/ DetectDataExfiltration

SpecDetect == InitDetect /\ [][NextDetect]_vars

----------------------------------------------------------------------------
(* run_all_detections: the five detectors in turn on the detector's one
   connection, over a store that may raise sqlite3.Error.  A statement that
   raises changes nothing.  A commit that raises because the database is
   locked leaves the inserted row in the connection's open transaction, where
   the connection itself reads it and where the next commit that succeeds
   makes it durable; a commit that raises on an I/O error or a full disk
   rolls the open transaction back. *)

Faults == {"none", "select", "insert", "commit_locked", "commit_io"}

\* the connection during a pass: the committed rows, its open transaction,
\* the 'ALERT CREATED' and the 'Failed to create alert' messages printed
Connection(alerts, txn) == [alerts |-> alerts, txn |-> txn, notified |-> 0, failed |-> 0]

\* what the connection reads: the committed rows and its own uncommitted ones
Visible(st) == st.alerts \o st.txn

\* create_alert(c) when the statement named by fault raises sqlite3.Error
Admit(st, c, fault) ==
    IF fault = "select" THEN [st EXCEPT !.failed = @ + 1]
    ELSE IF AlertExists(Visible(st), c) THEN st
    ELSE IF fault = "insert" THEN [st EXCEPT !.failed = @ + 1]
    ELSE IF fault = "commit_locked"
         THEN [st EXCEPT !.txn = Append(@, AlertRow(c)), !.failed = @ + 1]
    ELSE IF fault = "commit_io"
         THEN [st EXCEPT !.txn = <<>>, !.failed = @ + 1]
    ELSE [st EXCEPT !.alerts = Append(Visible(st), AlertRow(c)), !.txn = <<>>,
                    !.notified = @ + 1]

RECURSIVE Admits(_, _, _)
Admits(st, cs, faults) ==
    IF cs = <<>> THEN st
    ELSE Admits(Admit(st, Head(cs), Head(faults)), Tail(cs), Tail(faults))

\* the candidates of the five detectors, each in the order of its rows,
\* when self.baselines is cache
PassCandidatesOf(cache) ==
    {<<c1, TrafficSpikeRowsOf(cache), c3, c4, c5>> :
        c1 \in Orderings({c \in PortScanRows(5) : ManyPorts(c.details[1])}),
        c3 \in Orderings(UnusualProtocolRows),
        c4 \in Orderings(FloodRows),
        c5 \in Orderings(ExfilRows)}

PassCandidates == PassCandidatesOf(baselines)

\* the candidates of detectors 1..d, in the order create_alert is called
RECURSIVE Calls(_, _)
Calls(dets, d) == IF d = 0 THEN <<>> ELSE Calls(dets, d - 1) \o dets[d]

\* total_alerts after detectors 1..d
RECURSIVE TotalAlerts(_, _)
TotalAlerts(dets, d) ==
    IF d = 0 THEN 0
    ELSE TotalAlerts(dets, d - 1)
            + (IF d = 2 THEN (IF dets[d] # <<>> THEN 1 ELSE 0) ELSE Len(dets[d]))

\* query_fault = 0: no detector query raises; query_fault = d: the query of
\* detector d raises, and the exception leaves run_all_detections.  The store
\* raises at most MaxFaults times in one pass.
RunAllDetections(query_faults, kinds) ==
    \E dets \in PassCandidates, query_fault \in query_faults :
        LET completed == IF query_fault = 0 THEN 5 ELSE query_fault - 1
            cs == Calls(dets, completed)
        IN  \E faults \in {f \in [1..Len(cs) -> kinds] :
                                Cardinality({i \in 1..Len(cs) : f[i] # "none"})
                                    + (IF query_fault = 0 THEN 0 ELSE 1) <= MaxFaults} :
                LET start == Connection(security_alerts, uncommitted)
                    Through(d) == Admits(start, Calls(dets, d), SubSeq(faults, 1, Len(Calls(dets, d))))
                    end == Through(completed)
                IN  /\ Len(Visible(end)) <= MaxAlerts
                    /\ security_alerts' = end.alerts
                    /\ uncommitted' = end.txn
                    /\ last' = Ran("run_all_detections",
                                   [query_fault |-> query_fault, faults |-> faults],
                                   [raised |-> query_fault # 0,
                                    total |-> IF query_fault = 0 THEN TotalAlerts(dets, 5) ELSE Null,
                                    returns |-> [d \in 1..completed |->
                                                    IF d = 2 THEN dets[d] # <<>> ELSE Len(dets[d])],
                                    completed |-> 1..completed,
                                    added |-> [d \in 1..completed |->
                                                  Len(Through(d).alerts) - Len(Through(d - 1).alerts)],
                                    notified |-> end.notified,
                                    failed |-> end.failed],
                                   cs)
                    /\ UNCHANGED <<now, traffic_events, baseline_profiles, baselines, pc, pending, monitor>>

\* close(): the connection is closed, its open transaction is rolled back
Close ==
    /\ uncommitted' = <<>>
    /\ last' = Ran("close", Null, Null, <<>>)
    /\ UNCHANGED <<now, traffic_events, baseline_profiles, security_alerts, baselines, pc, pending, monitor>>

\* the 25 events of one source to 25 ports, alone in the store
Seeds ==
    { Scan(BurstTime, IpTenNet, 1..25, 1),
      Scan(StartTime - 4 * SecondsPerMinute - 30, IpTenNet, 1..25, 1) }

InitPass ==
    \/ InitOver(Bursts, History(11, ShapeQuiet))
    \/ InitOver(Seeds, EmptyBag)

\* passes over a store that does not fail
NextPass ==
    \/ \E t \in DetectClock : Tick(t)
    \/ RunAllDetections({0}, {"none"})

SpecPass == InitPass /\ [][NextPass]_vars

FaultBursts ==
    { Scan(BurstTime, IpTenNet, 1..21, 1) (+) Scan(BurstTime, IpExternal, 1..51, 1),
      Flood(IpExternal, 22, 51, <<"SYN">>) (+) Flood(IpExternal, 80, 51, <<"SYN">>),
      Pings(10) }

InitFault == InitOver(FaultBursts, History(11, ShapeQuiet))

\* the next pass comes one minute later
FaultClock == {StartTime + 60}

\* passes over a store that may fail
NextFault ==
    \/ \E t \in FaultClock : Tick(t)
    \/ RunAllDetections(0..5, Faults)
    \/ Close

SpecFault == InitFault /\ [][NextFault]_vars

(***************************************************************************)
(* One detector instance whose passes may meet store errors and whose      *)
(* baseline is established again between passes.                           *)
(***************************************************************************)
FrameBursts ==
    { Scan(BurstTime, IpTenNet, 1..21, 1) (+) Scan(BurstTime, IpExternal, 1..51, 1),
      Pings(10) }

InitFrame == InitOver(FrameBursts, History(11, ShapeQuiet))

NextFrame ==
    \/ \E t \in FaultClock : Tick(t)
    \/ RunAllDetections(0..5, Faults)
    \/ EstablishBaseline(NormalTraffic, PacketsPerMinute, 24)
    \/ Close

SpecFrame == InitFrame /\ [][NextFrame]_vars

----------------------------------------------------------------------------
(* establish_baseline on one connection while another process constructs a
   detector and runs detect_traffic_spike.  The INSERT OR REPLACE is one
   statement inside the writer's transaction; the other connection reads
   committed rows only. *)

\* lines 56-83: the SELECT over traffic_events and the INSERT OR REPLACE
EstablishWrite(profile_name, metric_name, lookback_hours) ==
    LET values == BucketCounts(lookback_hours)
    IN  /\ uncommitted = <<>>
        /\ metric_name = PacketsPerMinute /\ SufficientData(values)
        /\ uncommitted' = <<BaselineRow(profile_name, metric_name, values)>>
        /\ last' = Ran("establish_baseline", <<profile_name, metric_name, lookback_hours>>, Null, <<>>)
        /\ UNCHANGED <<now, traffic_events, baseline_profiles, security_alerts, baselines, pc, pending, monitor>>

\* line 83: self.db_conn.commit()
EstablishCommit ==
    /\ uncommitted # <<>>
    /\ baseline_profiles' = InsertOrReplace(baseline_profiles, uncommitted[1])
    /\ uncommitted' = <<>>
    /\ last' = Ran("commit", Null, TRUE, <<>>)
    /\ UNCHANGED <<now, traffic_events, security_alerts, baselines, pc, pending, monitor>>

RefreshBursts ==
    { Scan(BurstTime, IpTenNet, 1..21, 1),
      Flood(IpExternal, 22, 51, <<"SYN">>),
      Pings(3),
      Pings(10) }

InitRefresh == InitOver(RefreshBursts, History(11, ShapeQuiet))

NextRefresh ==
    \/ \E t \in DetectClock : Tick(t)
    \/ EstablishWrite(NormalTraffic, PacketsPerMinute, 24)
    \/ EstablishCommit
    \/ Construct
    \/ DetectTrafficSpike

SpecRefresh == InitRefresh /\ [][NextRefresh]_vars

----------------------------------------------------------------------------
(* The program: python anomaly_detector.py.  The detector is constructed
   outside the try; establish_baseline and run_all_detections run inside it,
   with 'except KeyboardInterrupt', 'except Exception' and 'finally:
   detector.close()'.  The program never calls sys.exit: it ends with status
   0 when it runs off its end and with status 1 on an uncaught exception. *)

\* where the run is disturbed: at 0 the constructor, at 1 establish_baseline,
\* at 2..6 the query of detector 1..5
\* finally: detector.close() -- how often close() runs on the way out
Closes(constructed, fault) == IF constructed THEN 1 ELSE 0

MainFaults ==
    {[kind |-> "none", at |-> 0]}
        \cup {[kind |-> "store", at |-> a] : a \in 0..6}
        \cup {[kind |-> "interrupt", at |-> a] : a \in 1..6}

Main(fault) ==
    LET constructed == ~(fault.kind = "store" /\ fault.at = 0)
        cache == IF constructed THEN LoadBaselines(baseline_profiles) ELSE baselines
        values == BucketCounts(24)
        established == constructed /\ (fault.kind = "none" \/ fault.at > 1) /\ SufficientData(values)
        completed == IF ~constructed THEN 0
                     ELSE IF fault.kind = "none" THEN 5
                     ELSE Max(0, fault.at - 2)
    IN  \E dets \in PassCandidatesOf(cache) :
            LET cs == Calls(dets, completed)
                end == Admits(Connection(security_alerts, <<>>), cs, [i \in 1..Len(cs) |-> "none"])
            IN  /\ Len(end.alerts) <= MaxAlerts
                /\ baselines' = cache
                /\ baseline_profiles' =
                      IF established
                      THEN InsertOrReplace(baseline_profiles,
                                           BaselineRow(NormalTraffic, PacketsPerMinute, values))
                      ELSE baseline_profiles
                /\ security_alerts' = end.alerts
                /\ uncommitted' = <<>>
                /\ last' = Ran("__main__", fault,
                               [exit_status |-> IF constructed THEN 0 ELSE 1,
                                closed |-> Closes(constructed, fault),
                                completed |-> 1..completed,
                                total |-> IF fault.kind = "none" THEN TotalAlerts(dets, 5) ELSE Null],
                               cs)
                /\ UNCHANGED <<now, traffic_events, pc, pending, monitor>>

MainBursts ==
    { Scan(BurstTime, IpTenNet, 1..21, 1) (+) Scan(BurstTime, IpExternal, 1..51, 1),
      Flood(IpExternal, 22, 51, <<"SYN">>),
      Transfer(IpInternalA, IpExternal, 11, 0),
      Pings(10) }

InitMain == InitOver(MainBursts, History(11, ShapeQuiet))

NextMain ==
    \/ \E t \in FaultClock : Tick(t)
    \/ \E fault \in MainFaults : Main(fault)

SpecMain == InitMain /\ [][NextMain]_vars

(***************************************************************************)
(* NetworkMonitor (src/monitor.py).  One iteration of run logs a simulated *)
(* event and, when packet_count is a multiple of ten, calls                *)
(* check_anomalies with it.  SIGINT and SIGTERM run cleanup, which ends    *)
(* the process with SystemExit; the loop's `except Exception` does not     *)
(* catch it.                                                               *)
(***************************************************************************)
CheckEvery == 10
MonitorPorts == 20

\* of the addresses simulate_traffic_event draws from, the one the inputs
\* below hold earlier traffic of
MonitorSources == {IpExternal}

simulate_traffic_event(src) ==
    IsoEvent(now, src, IpInternalA, 443, "TCP", 64, <<"SYN">>)

\* one iteration of the loop up to `if self.packet_count % 10 == 0`
MonitorLog(src) ==
    LET event == simulate_traffic_event(src)
        count == monitor.packet_count + 1
    IN  /\ monitor.pc = "loop"
        /\ monitor.running
        /\ monitor.connected
        /\ monitor.packet_count < MaxPackets
        /\ traffic_events' = traffic_events (+) Copies(event, 1)
        /\ monitor' = [monitor EXCEPT !.packet_count = count, !.event = event,
                                      !.pc = IF count % CheckEvery = 0 THEN "check" ELSE "loop"]
        /\ last' = Ran("log_traffic_event", event, count, <<>>)
        /\ UNCHANGED <<now, baseline_profiles, security_alerts, baselines, pc, pending, uncommitted>>

\* COUNT(DISTINCT destination_port) of the source over the last five minutes
MonitorPortCount(source_ip) ==
    Cardinality({r.destination_port : r \in {q \in Recent(5 * SecondsPerMinute) : q.source_ip = source_ip}})

\* the row NetworkMonitor.create_alert inserts; status is the column default
MonitorAlertRow(source_ip, port_count) ==
    [timestamp |-> now, alert_type |-> "port_scan", severity |-> "medium",
     source_ip |-> source_ip, description |-> Description(PortScanText, source_ip, ""),
     details |-> <<port_count>>, status |-> "open"]

\* NetworkMonitor.create_alert: INSERT and commit, on an open connection
MonitorCreateAlert(alerts, row, connected) ==
    IF connected THEN Append(alerts, row) ELSE alerts

MonitorCheck ==
    LET source_ip == monitor.event.source_ip
        port_count == MonitorPortCount(source_ip)
        alerts == IF monitor.connected /\ port_count > MonitorPorts
                  THEN MonitorCreateAlert(security_alerts, MonitorAlertRow(source_ip, port_count),
                                          monitor.connected)
                  ELSE security_alerts
    IN  /\ monitor.pc = "check"
        /\ Len(alerts) <= MaxAlerts
        /\ security_alerts' = alerts
        /\ monitor' = [monitor EXCEPT !.pc = "loop"]
        /\ last' = Ran("check_anomalies", source_ip, port_count, <<>>)
        /\ UNCHANGED <<now, traffic_events, baseline_profiles, baselines, pc, pending, uncommitted>>

\* cleanup without close and sys.exit: the handler returns into the loop
Cleaned_FlagOnly(m) == [m EXCEPT !.running = FALSE, !.signalled = TRUE]

\* cleanup: running = False, db_conn.close(), sys.exit(0)
Cleaned(m) ==
    [m EXCEPT !.running = FALSE, !.connected = FALSE, !.signalled = TRUE, !.pc = "exited"]

\* SIGINT or SIGTERM delivered while run is at any point of the loop
MonitorSignal(signum) ==
    /\ monitor.pc # "exited"
    /\ monitor' = Cleaned(monitor)
    /\ last' = Ran("cleanup", signum, 0, <<>>)
    /\ UNCHANGED <<now, traffic_events, baseline_profiles, security_alerts, baselines, pc, pending, uncommitted>>

MonitorNext(sources) ==
    \/ \E src \in sources : MonitorLog(src)
    \/ MonitorCheck
    \/ \E signum \in {"SIGINT", "SIGTERM"} : MonitorSignal(signum)

(***************************************************************************)
(* Shutdown: the detector program and the monitor, each run to its end.    *)
(***************************************************************************)
ShutdownBursts ==
    { Scan(BurstTime, IpExternal, 1..21, 1), Pings(10) }

InitMonitor == InitOver(ShutdownBursts, EmptyBag)

NextShutdown ==
    \/ \E fault \in MainFaults : Main(fault)
    \/ MonitorNext(MonitorSources)

SpecShutdown == InitMonitor /\ [][NextShutdown]_vars

(***************************************************************************)
(* The monitor and the detector's passes on one store.                     *)
(***************************************************************************)
NextMonitor ==
    \/ \E t \in FaultClock : Tick(t)
    \/ RunAllDetections({0}, {"none"})
    \/ MonitorNext(MonitorSources)

SpecMonitor == InitMonitor /\ [][NextMonitor]_vars

(***************************************************************************)
(* The detectors over events the producer logged: every timestamp is the   *)
(* isoformat text of log_traffic_event.                                    *)
(***************************************************************************)
Captured(events) ==
    LET rows == {[r EXCEPT !.iso = TRUE] : r \in BagToSet(events)}
    IN  [q \in rows |-> CopiesIn([q EXCEPT !.iso = FALSE], events)]

ProducerBursts ==
    { Captured(Scan(StartTime, IpExternal, 1..21, 1)),
      Captured(Flood(IpExternal, 22, 51, <<"SYN">>)),
      Captured(Pings(10)) }

ProducerClock == {StartTime + SecondsPerMinute, StartTime + 30 * SecondsPerMinute}

InitProducer == InitOver(ProducerBursts, EmptyBag)

NextProducer ==
    \/ \E t \in ProducerClock : Tick(t)
    \/ DetectPortScan(5)
    \/ DetectTrafficSpike
    \/ DetectUnusualProtocol
    \/ DetectFailedConnections
    \/ DetectDataExfiltration

SpecProducer == InitProducer /\ [][NextProducer]_vars

----------------------------------------------------------------------------
(* Claims about deduplication *)

\* the suppression key of the specification: NULL addresses count as equal
SameKey(a, b) == a.alert_type = b.alert_type /\ a.source_ip = b.source_ip

OpenRecentAt(row, t) == row.status = "open" /\ t - row.timestamp < DedupWindow

\* C1: a candidate is suppressed (no row is inserted) whenever the table holds
\* an alert with the same alert_type and source_ip, NULL included, that is open
\* and younger than 10 minutes.
C1_SuppressedWhenOpenRecent ==
    last.op = "create_alert" =>
        ((\E i \in 1..Len(last.pre_alerts) :
              SameKey(last.pre_alerts[i], last.arg) /\ OpenRecentAt(last.pre_alerts[i], now))
         => security_alerts = last.pre_alerts)

\* C2: for one key, alerts persisted less than 10 minutes apart are never both
\* open (the second candidate was suppressed), and a candidate that finds no
\* open alert of its key of the last 10 minutes is persisted as a new open row.
C2_DedupAgesOut ==
    /\ \A i, j \in 1..Len(security_alerts) :
          (i < j /\ SameKey(security_alerts[i], security_alerts[j])
                 /\ security_alerts[i].status = "open" /\ security_alerts[j].status = "open")
          => security_alerts[j].timestamp - security_alerts[i].timestamp >= DedupWindow
    /\ last.op = "create_alert" =>
          ((\A i \in 1..Len(last.pre_alerts) :
                ~(SameKey(last.pre_alerts[i], last.arg)
                  /\ last.pre_alerts[i].status = "open"
                  /\ now - last.pre_alerts[i].timestamp <= DedupWindow))
           => security_alerts = Append(last.pre_alerts, AlertRow(last.arg)))

\* C3: two connections running create_alert for the same key never both
\* persist an alert: no two open alerts of one non-NULL key lie less than 10
\* minutes apart.
C3_AtMostOneAdmitted ==
    \A i, j \in 1..Len(security_alerts) :
        (i < j /\ SameKey(security_alerts[i], security_alerts[j])
               /\ security_alerts[i].source_ip # Null
               /\ security_alerts[i].status = "open" /\ security_alerts[j].status = "open")
        => security_alerts[j].timestamp - security_alerts[i].timestamp >= DedupWindow

----------------------------------------------------------------------------
(* Claims about establish_baseline *)

EstablishRan == last.op = "establish_baseline"

\* the events of the lookback window of the call, by their age
LookbackRows == {r \in BagToSet(traffic_events) : now - r.timestamp < last.arg[3] * 3600}

\* the one-minute buckets populated in the lookback window, each with its count
PopulatedBuckets == {r.timestamp \div 60 : r \in LookbackRows}

BucketCount == [b \in PopulatedBuckets |->
    SumOver([r \in LookbackRows |-> CopiesIn(r, traffic_events)],
            {r \in LookbackRows : r.timestamp \div 60 = b})]

NBuckets == Cardinality(PopulatedBuckets)
SumCounts == SumOver(BucketCount, PopulatedBuckets)
SumSquares == SumOver([b \in PopulatedBuckets |-> BucketCount[b] * BucketCount[b]], PopulatedBuckets)

\* v is the mean of the bucket counts, to 1/Scale
IsMean(v) == v * NBuckets <= Scale * SumCounts /\ Scale * SumCounts < (v + 1) * NBuckets

\* v is the standard deviation with divisor n-1 of the bucket counts, to 1/Scale:
\* v^2 <= (n*SumSquares - SumCounts^2) / (n*(n-1)) < (v+1)^2
IsSampleStDev(v) ==
    LET n == NBuckets
        num == Scale * Scale * (n * SumSquares - SumCounts * SumCounts)
    IN  v >= 0 /\ v * v * n * (n - 1) <= num /\ num < (v + 1) * (v + 1) * n * (n - 1)

RowOfCall(row) ==
    /\ row.profile_name = last.arg[1]
    /\ row.metric_name = last.arg[2]

ComputedByCall(row) ==
    /\ IsMean(row.baseline_value)
    /\ IsSampleStDev(row.std_deviation)
    /\ row.threshold_high = row.baseline_value + 3 * row.std_deviation
    /\ row.threshold_low = (IF row.baseline_value - 3 * row.std_deviation > 0
                            THEN row.baseline_value - 3 * row.std_deviation ELSE 0)

\* C4: with 10 or fewer populated one-minute buckets in the lookback window
\* establish_baseline returns False and leaves baseline_profiles as it was.
C4_InsufficientDataNoOp ==
    (EstablishRan /\ NBuckets <= 10) =>
        (last.ret = FALSE /\ baseline_profiles = last.pre_profiles)

\* the call found exactly 10 buckets and a row already stored for its key
C4_Witness ==
    /\ EstablishRan /\ NBuckets = 10 /\ last.arg[2] = PacketsPerMinute
    /\ \E row \in last.pre_profiles : RowOfCall(row)
    /\ last.ret = FALSE

C6_BaselineUpsert ==
    /\ \A r1, r2 \in baseline_profiles :
          (r1.profile_name = r2.profile_name /\ r1.metric_name = r2.metric_name) => r1 = r2
    /\ (EstablishRan /\ last.ret = TRUE) =>
          /\ \A row \in baseline_profiles : RowOfCall(row) => ComputedByCall(row)
          /\ \E row \in baseline_profiles : RowOfCall(row)
          /\ {row \in baseline_profiles : ~RowOfCall(row)} = {row \in last.pre_profiles : ~RowOfCall(row)}

\* a successful call that replaced a row holding other values, next to a row
\* of another key
C6_Witness ==
    /\ EstablishRan /\ last.ret = TRUE
    /\ \E old \in last.pre_profiles : RowOfCall(old) /\ old \notin baseline_profiles
    /\ \E other \in baseline_profiles : ~RowOfCall(other)

----------------------------------------------------------------------------
(* Claims about the detectors *)

\* the distinct events of the trailing window, by their age
Trailing(seconds) == {e \in BagToSet(traffic_events) : now - e.timestamp < seconds}

\* how many events a set of distinct events stands for
Events(S) == SumOver([e \in S |-> CopiesIn(e, traffic_events)], S)

\* the positions of the candidates of the last call that satisfy P
Produced(P(_)) == {i \in 1..Len(last.cands) : P(last.cands[i])}

\* C7: detect_port_scan produces exactly one port_scan candidate for each
\* source_ip with more than 20 distinct destination ports in the window and
\* none for the others, medium for 21..50 ports and high from 51 on, and returns
\* the number of those source IPs.
C7_PortScanCandidates ==
    last.op = "detect_port_scan" =>
        LET window == Trailing(last.arg * 60)
            sources == {e.source_ip : e \in BagToSet(traffic_events)}
            ports(ip) == Cardinality({e.destination_port : e \in {x \in window : x.source_ip = ip}})
        IN  /\ \A ip \in sources :
                  LET From(c) == c.source_ip = ip
                  IN  Cardinality(Produced(From)) = (IF ports(ip) > 20 THEN 1 ELSE 0)
            /\ \A i \in 1..Len(last.cands) :
                  /\ last.cands[i].alert_type = "port_scan"
                  /\ last.cands[i].source_ip \in sources
                  /\ last.cands[i].severity =
                        (IF ports(last.cands[i].source_ip) >= 51 THEN "high" ELSE "medium")
            /\ last.ret = Cardinality({ip \in sources : ports(ip) > 20})

\* two sources scanned at once, one below 51 ports and one from 51 on
C7_Witness ==
    /\ last.op = "detect_port_scan" /\ last.ret = 2
    /\ \E i, j \in 1..Len(last.cands) :
          last.cands[i].severity = "medium" /\ last.cands[j].severity = "high"

\* C8: detect_traffic_spike produces a traffic_spike candidate with null
\* source_ip exactly when the detector holds a baseline for
\* normal_traffic_packets_per_minute and the events of the last minute
\* outnumber its threshold_high; critical above twice the threshold, else high;
\* without that baseline it produces nothing and returns False.
C8_TrafficSpikeCandidate ==
    last.op = "detect_traffic_spike" =>
        LET key == <<"normal", "traffic", "packets", "per", "minute">>
            count == Events(Trailing(60)) * Scale
            available == key \in DOMAIN baselines
            spike == available /\ count > baselines[key].threshold_high
        IN  /\ Len(last.cands) = (IF spike THEN 1 ELSE 0)
            /\ last.ret = spike
            /\ spike =>
                  /\ last.cands[1].alert_type = "traffic_spike"
                  /\ last.cands[1].source_ip = Null
                  /\ last.cands[1].severity =
                        (IF count > 2 * baselines[key].threshold_high THEN "critical" ELSE "high")
            /\ ~available => (last.cands = <<>> /\ last.ret = FALSE)

\* a spike above the threshold and not above twice the threshold
C8_Witness ==
    /\ last.op = "detect_traffic_spike" /\ last.ret = TRUE
    /\ last.cands[1].severity = "high"
    /\ Len(security_alerts) = Len(last.pre_alerts) + 1

PrivateRange(ip) ==
    \/ ip[1] = 10
    \/ ip[1] = 172 /\ ip[2] \in 16..31
    \/ ip[1] = 192 /\ ip[2] = 168

\* C9: detect_data_exfiltration produces exactly one data_exfiltration
\* candidate of severity high for each pair (source_ip, destination_ip) of the
\* last 10 minutes whose source is a private-range address (10.x.x.x as well
\* as 192.168.x.x), whose destination is not, and whose packet sizes sum to more
\* than 10,485,760 bytes, and none for any other pair.
C9_DataExfiltrationCandidates ==
    last.op = "detect_data_exfiltration" =>
        LET window == Trailing(600)
            pairs == {<<e.source_ip, e.destination_ip>> : e \in window}
            of(p) == {e \in window : e.source_ip = p[1] /\ e.destination_ip = p[2]}
            bytes(p) == SumOver([e \in of(p) |-> e.packet_size * CopiesIn(e, traffic_events)], of(p))
        IN  /\ \A p \in pairs :
                  LET For(c) == c.source_ip = p[1] /\ SubSeq(c.details, 6, 9) = p[2]
                  IN  Cardinality(Produced(For)) =
                         (IF PrivateRange(p[1]) /\ ~PrivateRange(p[2]) /\ bytes(p) > 10485760
                          THEN 1 ELSE 0)
            /\ \A i \in 1..Len(last.cands) :
                  /\ last.cands[i].alert_type = "data_exfiltration"
                  /\ last.cands[i].severity = "high"
                  /\ <<last.cands[i].source_ip, SubSeq(last.cands[i].details, 6, 9)>> \in pairs

----------------------------------------------------------------------------
(* Claims about the unusual-protocol detector *)

\* C11: detect_unusual_protocol produces an unusual_protocol candidate of
\* severity medium for a protocol exactly when the protocol's share of all
\* events of the last hour is strictly above 30% and the protocol is none of
\* TCP, UDP, HTTP, HTTPS; it returns the number of candidates, and with no
\* event in the last hour it produces no candidate and returns 0.
C11_UnusualProtocolCandidates ==
    last.op = "detect_unusual_protocol" =>
        LET window == Trailing(3600)
            total == Events(window)
            protocols == {e.protocol : e \in BagToSet(traffic_events)}
            share10(q) == 10 * Events({e \in window : e.protocol = q})
            unusual == {q \in protocols :
                           share10(q) > 3 * total /\ q \notin {"TCP", "UDP", "HTTP", "HTTPS"}}
        IN  /\ \A q \in protocols :
                  LET Of(c) == c.description.protocol = q
                  IN  Cardinality(Produced(Of)) = (IF q \in unusual THEN 1 ELSE 0)
            /\ \A i \in 1..Len(last.cands) :
                  /\ last.cands[i].alert_type = "unusual_protocol"
                  /\ last.cands[i].severity = "medium"
                  /\ last.cands[i].description.protocol \in protocols
            /\ last.ret = Cardinality(unusual)
            /\ window = {} => last.cands = <<>> /\ last.ret = 0

\* ICMP above 30% of the hour's events while HTTPS, also above 30%, is left out
C11_Witness ==
    /\ last.op = "detect_unusual_protocol" /\ last.ret = 1
    /\ last.cands[1].description.protocol = "ICMP"
    /\ 10 * Events({e \in Trailing(3600) : e.protocol = "HTTPS"}) > 3 * Events(Trailing(3600))

\* the detector ran over an hour without events
C11_WitnessEmptyWindow ==
    /\ last.op = "detect_unusual_protocol"
    /\ Trailing(3600) = {} /\ traffic_events # EmptyBag

\* the detector ran with a protocol at exactly 30% of the hour's events
C11_WitnessBoundary ==
    /\ last.op = "detect_unusual_protocol"
    /\ 10 * Events({e \in Trailing(3600) : e.protocol = "ICMP"}) = 3 * Events(Trailing(3600))
    /\ Trailing(3600) # {}

----------------------------------------------------------------------------
(* Claims about run_all_detections *)

PassRan == last.op = "run_all_detections"

\* how often each value occurs in a sequence
BagOfSeq(q) == [x \in {q[i] : i \in 1..Len(q)} |-> Cardinality({i \in 1..Len(q) : q[i] = x})]

\* C12: when the five detectors run twice with no change to traffic_events,
\* to the baseline and to the clock in between, the second run hands
\* create_alert the same multiset of candidates (alert_type, severity,
\* source_ip, description, details) and returns the same values as the first,
\* whatever the first run persisted.
C12_DetectorIdempotence ==
    [][(PassRan /\ PassRan' /\ now' = now /\ traffic_events' = traffic_events
            /\ baselines' = baselines)
        => /\ BagOfSeq(last'.cands) = BagOfSeq(last.cands)
           /\ last'.ret.returns = last.ret.returns
           /\ last'.ret.total = last.ret.total]_vars

\* a second run at the same instant, after the first has persisted alerts
C12_Witness ==
    /\ PassRan /\ last.cands # <<>>
    /\ last.pre_alerts # <<>>
    /\ \E i \in 1..Len(last.pre_alerts) :
          /\ last.pre_alerts[i].timestamp = now
          /\ \E j \in 1..Len(last.cands) :
                last.cands[j].alert_type = last.pre_alerts[i].alert_type

\* the store holds 25 TCP events, all from 10.0.0.5, to 25 distinct ports
SeededScan ==
    LET rows == BagToSet(traffic_events)
    IN  /\ Events(rows) = 25
        /\ \A e \in rows : e.source_ip = <<10, 0, 0, 5>> /\ e.protocol = "TCP"
        /\ Cardinality({e.destination_port : e \in rows}) = 25

PortScanAlertOfSeed(row) ==
    /\ row.alert_type = "port_scan" /\ row.severity = "medium"
    /\ row.source_ip = <<10, 0, 0, 5>> /\ row.status = "open"

\* C13: with an empty security_alerts and 25 events from 10.0.0.5 to 25
\* distinct ports inside the last 5 minutes, run_all_detections persists
\* exactly one alert, (port_scan, medium, 10.0.0.5, open); run again one
\* minute later with no new events, it persists no further alert.
C13_EndToEndPortScan ==
    (PassRan /\ SeededScan) =>
        /\ (last.pre_alerts = <<>> /\ Trailing(300) = BagToSet(traffic_events)) =>
              /\ Len(security_alerts) = 1
              /\ PortScanAlertOfSeed(security_alerts[1])
              /\ security_alerts[1].timestamp = now
        /\ ( /\ Len(last.pre_alerts) = 1
             /\ PortScanAlertOfSeed(last.pre_alerts[1])
             /\ last.pre_alerts[1].timestamp = now - 60 ) =>
              security_alerts = last.pre_alerts

\* the second run, one minute after the first, found the scan again and
\* left the table as it was
C13_Witness ==
    /\ PassRan /\ SeededScan
    /\ Len(last.pre_alerts) = 1 /\ PortScanAlertOfSeed(last.pre_alerts[1])
    /\ last.pre_alerts[1].timestamp = now - 60
    /\ Len(last.cands) = 1 /\ last.cands[1].alert_type = "port_scan"
    /\ security_alerts = last.pre_alerts

\* the first run of the scenario
C13_FirstRun ==
    /\ PassRan /\ SeededScan /\ last.pre_alerts = <<>>
    /\ Trailing(300) = BagToSet(traffic_events) /\ Len(security_alerts) = 1

\* C14: the total run_all_detections returns equals the number of alerts the
\* pass persisted; candidates that create_alert suppressed or dropped are not
\* counted, so a second pass over an unchanged, already alerted condition
\* returns 0.
C14_TotalCountsPersisted ==
    (PassRan /\ ~last.ret.raised) =>
        last.ret.total = Len(security_alerts) - Len(last.pre_alerts)

----------------------------------------------------------------------------
(* Claims about store errors *)

\* C15: when the query of one detector raises inside run_all_detections, the
\* failure is contained: no exception leaves the pass and the other four
\* detectors of the pass are still run.
C15_FaultIsolation ==
    (PassRan /\ last.arg.query_fault # 0) =>
        /\ ~last.ret.raised
        /\ last.ret.completed = (1..5) \ {last.arg.query_fault}

\* the rows the last operation added to security_alerts
Added == SubSeq(security_alerts, Len(last.pre_alerts) + 1, Len(security_alerts))

\* row is the row create_alert writes for candidate c
RowOf(row, c) ==
    /\ row.alert_type = c.alert_type /\ row.severity = c.severity
    /\ row.source_ip = c.source_ip /\ row.description = c.description
    /\ row.details = c.details

\* every statement the fault schedule names was reached, and raised
EveryFaultMet ==
    last.ret.failed = Cardinality({i \in 1..Len(last.cands) : last.arg.faults[i] # "none"})

\* C16: when the store raises during create_alert, in the existence check,
\* the insert or the commit, the error is reported and stays inside
\* create_alert, the candidate is not tried again in that pass, and no row
\* for it is persisted.
C16_DroppedCandidateNotPersisted ==
    (PassRan /\ last.pre_uncommitted = <<>> /\ EveryFaultMet) =>
        \A i \in 1..Len(last.cands) :
            last.arg.faults[i] # "none" =>
                \A k \in 1..Len(Added) : ~RowOf(Added[k], last.cands[i])

\* C17: the pass prints 'ALERT CREATED' once for every row it added to
\* security_alerts and never for a candidate that was suppressed or dropped.
C17_NotificationPerRow ==
    PassRan => last.ret.notified = Len(Added)

----------------------------------------------------------------------------
(* Claims about the baseline under refresh *)

\* the four numbers belong to one baseline record
WholeRecord(b) ==
    /\ b.threshold_high = b.baseline + 3 * b.std_dev
    /\ b.threshold_low = (IF b.baseline - 3 * b.std_dev > 0 THEN b.baseline - 3 * b.std_dev ELSE 0)

\* the old record, established over the history, and the new one,
\* established over all of traffic_events
Versions ==
    {[baseline |-> r.baseline_value, std_dev |-> r.std_deviation,
      threshold_high |-> r.threshold_high, threshold_low |-> r.threshold_low] :
        r \in {BaselineRow(NormalTraffic, PacketsPerMinute, BucketCountsIn(History(11, ShapeQuiet), 24)),
               BaselineRow(NormalTraffic, PacketsPerMinute, BucketCountsIn(traffic_events, 24))}}

\* C18: when establish_baseline overlaps detect_traffic_spike, the record the
\* detector compares against is the complete old or the complete new
\* baseline record, never a mix of the two.
C18_BaselineReadAtomic ==
    last.op = "detect_traffic_spike" =>
        \A key \in DOMAIN baselines :
            WholeRecord(baselines[key]) /\ baselines[key] \in Versions

\* the detector compared against the old record while the new one was
\* written and not yet committed
C18_Witness ==
    /\ last.op = "detect_traffic_spike"
    /\ uncommitted # <<>>
    /\ DOMAIN baselines # {}
    /\ \A key \in DOMAIN baselines : baselines[key].baseline # uncommitted[1].baseline_value

\* the detector compared against the new record after the old one was replaced
C18_WitnessNew ==
    /\ last.op = "detect_traffic_spike"
    /\ DOMAIN baselines # {}
    /\ \A key \in DOMAIN baselines :
          baselines[key].baseline =
              BaselineRow(NormalTraffic, PacketsPerMinute, BucketCountsIn(traffic_events, 24)).baseline_value
    /\ baselines[BaselineKey(NormalTraffic, PacketsPerMinute)].baseline #
          BaselineRow(NormalTraffic, PacketsPerMinute, BucketCountsIn(History(11, ShapeQuiet), 24)).baseline_value

----------------------------------------------------------------------------
(* Claims about the alerts of one pass *)

AddedRows(P(_)) == {k \in 1..Len(Added) : P(Added[k])}

C19_WitnessTwoSources ==
    PassRan /\ last.pre_alerts = <<>> /\ last.ret.added[1] = 2

----------------------------------------------------------------------------
(* Claims about the program's exit status *)

\* C20: the exit status of the program tells a clean run from a run that ended
\* in a store error and from an interrupted one: a run that ended in a store
\* error, or in an interrupt, does not end with the status 0 of a clean run.
C20_ExitStatusDistinguishes ==
    last.op = "__main__" =>
        (last.arg.kind # "none" => last.ret.exit_status # 0)

(***************************************************************************)
(* C21  Clean shutdown.  Whenever the detection program ends after the     *)
(* detector was constructed -- normally, on an operator interrupt or on an *)
(* error of establish_baseline or of a detector -- close() has run exactly *)
(* once.  Once the monitor has handled SIGINT or SIGTERM its connection is *)
(* closed, running is FALSE, and no step adds a traffic event or lets the  *)
(* monitor add an alert.                                                   *)
(***************************************************************************)
Constructed(fault) == ~(fault.kind = "store" /\ fault.at = 0)

DetectorClosedOnce ==
    last.op = "__main__" /\ Constructed(last.arg) => last.ret.closed = 1

MonitorStopped ==
    monitor.signalled => ~monitor.running /\ ~monitor.connected

MonitorWritesNothing ==
    monitor.signalled =>
        /\ traffic_events' = traffic_events
        /\ monitor'.packet_count = monitor.packet_count
        /\ security_alerts' # security_alerts => last'.op = "__main__"

C21_CleanShutdown ==
    /\ [](DetectorClosedOnce /\ MonitorStopped)
    /\ [][MonitorWritesNothing]_vars

\* the detector ended on an interrupt after the monitor was stopped in the
\* middle of its tenth iteration
C21_Witness ==
    /\ last.op = "__main__"
    /\ last.arg.kind = "interrupt"
    /\ last.ret.closed = 1
    /\ monitor.signalled
    /\ monitor.packet_count = CheckEvery
    /\ last.pre_alerts # security_alerts

(***************************************************************************)
(* C22  Every write to the alert store is deduplicated: whatever the       *)
(* interleaving of monitor iterations and detector passes, security_alerts *)
(* never holds two open alerts of the same alert_type and the same         *)
(* non-null source_ip less than ten minutes apart.                         *)
(***************************************************************************)
Duplicates(i, j) ==
    /\ security_alerts[i].status = "open"
    /\ security_alerts[j].status = "open"
    /\ security_alerts[i].alert_type = security_alerts[j].alert_type
    /\ security_alerts[i].source_ip # Null
    /\ security_alerts[i].source_ip = security_alerts[j].source_ip
    /\ security_alerts[j].timestamp - security_alerts[i].timestamp < DedupWindow

C22_EveryWriteDeduplicated ==
    \A i, j \in 1..Len(security_alerts) : i < j => ~Duplicates(i, j)

(***************************************************************************)
(* C23  D2 follows the Baseline Store.  When establish_baseline for        *)
(* (normal_traffic, packets_per_minute) has returned True and the same     *)
(* detector runs detect_traffic_spike next, the detector raises a          *)
(* traffic_spike exactly if the packet count of the last minute exceeds    *)
(* the threshold_high that call persisted.                                 *)
(***************************************************************************)
PersistedBaseline ==
    CHOOSE row \in baseline_profiles :
        row.profile_name = NormalTraffic /\ row.metric_name = PacketsPerMinute

EstablishedThenDetects ==
    /\ last.op = "establish_baseline"
    /\ last.arg = <<NormalTraffic, PacketsPerMinute, 24>>
    /\ last.ret = TRUE
    /\ last'.op = "detect_traffic_spike"

C23_SpikeFollowsStore ==
    [][EstablishedThenDetects =>
          last'.ret = AboveThreshold(CountRows(Recent(SecondsPerMinute)), PersistedBaseline)]_vars

(***************************************************************************)
(* C24  Trailing window over producer-written events.  An event logged by  *)
(* the producer whose age exceeds a detector's window (five minutes for D1 *)
(* and D4, one minute for D2, ten minutes for D5, one hour for D3) is not  *)
(* selected by that detector's query; the distinct-port count of a         *)
(* port_scan candidate is taken over the events of the last five minutes.  *)
(***************************************************************************)
DetectorWindows ==
    {SecondsPerMinute, 5 * SecondsPerMinute, 10 * SecondsPerMinute, SecondsPerHour}

DistinctPorts(window, source_ip) ==
    Cardinality({e.destination_port : e \in {q \in window : q.source_ip = source_ip}})

C24_ProducerEventsWindowed ==
    /\ \A w \in DetectorWindows : Recent(w) \subseteq Trailing(w)
    /\ last.op = "detect_port_scan" =>
           \A i \in 1..Len(last.cands) :
               last.cands[i].details[1] =
                   DistinctPorts(Trailing(last.arg * SecondsPerMinute), last.cands[i].source_ip)

(***************************************************************************)
(* C25  Alert well-formedness.  Every alert the detector persisted is open *)
(* when inserted, has one of the five alert types and a severity allowed   *)
(* for its type, and has a null source_ip exactly if it is a traffic_spike *)
(* or an unusual_protocol alert; no step of the detector changes or        *)
(* removes a row that is already in security_alerts.                       *)
(***************************************************************************)
AllowedSeverities ==
    [port_scan |-> {"medium", "high"}, traffic_spike |-> {"high", "critical"},
     unusual_protocol |-> {"medium"}, connection_flood |-> {"high"},
     data_exfiltration |-> {"high"}]

WellFormed(row) ==
    /\ row.status = "open"
    /\ row.alert_type \in DOMAIN AllowedSeverities
    /\ row.severity \in AllowedSeverities[row.alert_type]
    /\ row.source_ip = Null <=> row.alert_type \in {"traffic_spike", "unusual_protocol"}

RowsKept ==
    /\ Len(security_alerts') >= Len(security_alerts)
    /\ SubSeq(security_alerts', 1, Len(security_alerts)) = security_alerts

C25_AlertWellFormed ==
    /\ [](\A i \in 1..Len(security_alerts) : WellFormed(security_alerts[i]))
    /\ [][RowsKept]_vars

\* a pass added an alert to a store that already held alerts; a sourceless
\* alert and a port_scan alert are among the rows
C25_Witness ==
    /\ PassRan
    /\ last.pre_alerts # <<>>
    /\ Added # <<>>
    /\ \E i \in 1..Len(security_alerts) : security_alerts[i].source_ip = Null
    /\ \E i \in 1..Len(security_alerts) : security_alerts[i].alert_type = "port_scan"

(***************************************************************************)
(* C26  Frame.  A detection pass, with its detectors and create_alert,     *)
(* leaves traffic_events and baseline_profiles as they were and only adds  *)
(* rows to security_alerts; establish_baseline leaves traffic_events and   *)
(* security_alerts as they were and changes no baseline_profiles row other *)
(* than the one of its key.                                                *)
(***************************************************************************)
OtherKeys(table, arg) ==
    {row \in table : ~(row.profile_name = arg[1] /\ row.metric_name = arg[2])}

PassFrame ==
    PassRan =>
        /\ traffic_events = last.pre_events
        /\ baseline_profiles = last.pre_profiles
        /\ SubSeq(security_alerts, 1, Len(last.pre_alerts)) = last.pre_alerts

EstablishFrame ==
    last.op = "establish_baseline" =>
        /\ traffic_events = last.pre_events
        /\ security_alerts = last.pre_alerts
        /\ OtherKeys(baseline_profiles, last.arg) = OtherKeys(last.pre_profiles, last.arg)

C26_Frame == PassFrame /\ EstablishFrame

====
